---- MODULE Spec2Model ----
(***************************************************************************)
(* Model of src/routes/+page.svelte: the paginated, multi-relay,           *)
(* deduplicated retrieval of kind-1 events (fetchAndConvertToCSV and       *)
(* fetchChunkFromRelays).                                                  *)
(*                                                                         *)
(* The relay pool (nostr-tools SimplePool) is the environment.  It calls   *)
(* the three callbacks handed to subscribeMany:                            *)
(*   onevent(e)  for an event received on an open session,                 *)
(*   oneose()    when every queried relay has sent end-of-stored-events    *)
(*               or has closed,                                            *)
(*   onclose()   when every queried relay has closed.                      *)
(* Under Spec the relays are unconstrained: any event of the adversary's   *)
(* universe may be delivered at any time, whatever the filter says.  Under *)
(* SpecHonest every relay holds a fixed store and answers each query with  *)
(* its newest at-most-limit events having created_at <= until, then        *)
(* signals end-of-stored-events, before the timer is due.                  *)
(* FairSpec adds to Spec the fairness of the event loop; SpecSort applies  *)
(* the final sort to every deduplicated list.  SpecSingle is a run against *)
(* one honest relay.  SpecRuns is run after run against a pool whose       *)
(* subscribeMany may throw and whose sessions are closed by                *)
(* subscription.close(); SpecUi interleaves these runs with                *)
(* copyToClipboard.                                                        *)
(***************************************************************************)
EXTENDS Integers, Sequences, FiniteSets, TLC

(* ------------------------------ bounds --------------------------------- *)
\* Page size.  The source sets 500 (line 13); the model scales it down.
CHUNK_EVENT_LIMIT == 2
\* Timer length in clock ticks.  The source sets 10_000 ms (line 14).
CHUNK_TIMEOUT_MS == 1
\* Number of relay URLs the user entered.
NumRelays == 2
\* Event identifiers are 1..MaxId; created_at ranges over 0..MaxTs.
MaxId == 7
MaxTs == 4
\* An unconstrained relay delivers the events with identifiers 1..MaxAdversaryId.
MaxAdversaryId == 3
\* Longest deduplicated list the sort is applied to under SpecSort.
MaxSortLen == 3
\* copyToClipboard calls whose write or delayed clear may be outstanding at once.
MaxPendingCopies == 2

\* Longest chunk buffer an unconstrained relay fills: one more than a page.
MaxChunkLen == CHUNK_EVENT_LIMIT + 1

\* The fetch counter saturates here: one more fetch than MaxId events fill
\* pages of a single relay.
MaxFetches == (MaxId \div CHUNK_EVENT_LIMIT) + 1

Min2(a, b) == IF b < a THEN b ELSE a

Relays == 1 .. NumRelays
Ids == 1 .. MaxId

\* The created_at of the event with identifier id.  An identifier is the hash
\* of the event, so it fixes created_at.  Identifiers 1..MaxTs+1 have the
\* timestamps 0..MaxTs; the identifiers above them repeat these timestamps,
\* which gives the universe events with equal created_at.
TsOf(id) == (id - 1) % (MaxTs + 1)

\* type Event (nostr-tools/core): the fields the program reads.
EventOf(id) == [id |-> id, created_at |-> TsOf(id)]
Event == { EventOf(i) : i \in Ids }
AdversaryEvent == { EventOf(i) : i \in 1 .. Min2(MaxAdversaryId, MaxId) }

VARIABLES
  pc,              \* position of fetchAndConvertToCSV
  isLoading, errorMessage, successMessage, csvOutput,   \* $state, lines 8-11
  pool,            \* "none" | "open" | "closed"  (line 104, line 151)
  relays,          \* const relays = parseRelays(relaysInput)  (line 98)
  events,          \* const events: Event[]            (line 105)
  seenEventIds,    \* const seenEventIds: Set<string>  (line 106)
  until,           \* let until: number | undefined    (line 107): <<>> or <<n>>
  filterUntil,     \* filter.until of the query in flight (lines 111-119)
  chunkEvents,     \* const chunkEvents: Event[] (line 59), const chunk (line 121)
  resolved,        \* the promise of line 58 is settled
  subOpen,         \* the subscription of line 60 is open
  timerArmed,      \* the timer of line 74 is pending
  eosesReceived,   \* pool: the relay has sent end-of-stored-events or closed
  closesReceived,  \* pool: the relay's session has closed
  elapsed,         \* clock ticks since the chunk fetch began
  openSubs,        \* number of subscriptions open on the pool
  store,           \* relay: the author's events an honest relay holds
  sent,            \* relay: the events an honest relay sent for this query
  copyPending,     \* clipboard writes of line 182 not yet settled
  clearTimers,     \* pending timers of lines 185-189
  fetchCount,      \* history: chunk fetches started in this run (saturating)
  resolvedBy,      \* history: the signal that settled the promise
  streamed,        \* history: the events the pool handed to this chunk fetch
  poolCloses,      \* history: calls of pool.close in this run
  admitted,        \* history: admitted[k] is the until of the query whose
                   \*          chunk admitted arrival[k]
  arrival          \* history: the deduplicated events in order of first receipt

vars == << pc, isLoading, errorMessage, successMessage, csvOutput, pool, relays,
           events, seenEventIds, until, filterUntil, chunkEvents, resolved,
           subOpen, timerArmed, eosesReceived, closesReceived, elapsed, openSubs,
           store, sent, copyPending, clearTimers, fetchCount, resolvedBy,
           streamed, poolCloses, admitted, arrival >>

uiVars == << isLoading, errorMessage, successMessage, csvOutput >>
loopVars == << events, seenEventIds, until, admitted, arrival >>
promiseVars == << pc, resolved, resolvedBy, subOpen, timerArmed, openSubs >>
poolVars == << pool, poolCloses, relays >>
copyVars == << copyPending, clearTimers >>

\* let until: number | undefined (line 107) before the first assignment.
undefined == << >>

(* --------------------------- pure helpers ------------------------------ *)
\* lines 127-132: oldestTimestamp starts at chunk[0].created_at and is lowered
\* by every event of the chunk, already-seen ones included.
RECURSIVE OldestFrom(_, _, _)
OldestFrom(chunk, i, oldest) ==
  IF i > Len(chunk) THEN oldest
  ELSE OldestFrom(chunk, i + 1, Min2(oldest, chunk[i].created_at))

OldestTimestamp(chunk) == OldestFrom(chunk, 1, chunk[1].created_at)

\* Mutant of IsNew: the seen-set is never consulted.
IsNewAlways(seen, event) == TRUE

\* lines 134-137: the guard of the push.
IsNew(seen, event) == event.id \notin seen

\* lines 129-138: the for loop's effect on (events, seenEventIds).
RECURSIVE Accumulate(_, _, _, _)
Accumulate(chunk, i, evs, seen) ==
  IF i > Len(chunk) THEN [events |-> evs, seen |-> seen]
  ELSE IF IsNew(seen, chunk[i])
       THEN Accumulate(chunk, i + 1, Append(evs, chunk[i]), seen \cup {chunk[i].id})
       ELSE Accumulate(chunk, i + 1, evs, seen)

\* Mutant of Compare: the operands are swapped (newest first).
CompareReversed(a, b) == b.created_at - a.created_at

\* line 155: the comparator (a, b) => a.created_at - b.created_at.
Compare(a, b) == a.created_at - b.created_at

\* line 155: Array.prototype.sort is stable; insertion sort with the comparator.
RECURSIVE InsertSorted(_, _)
InsertSorted(sorted, e) ==
  IF sorted = << >> THEN << e >>
  ELSE IF Compare(sorted[Len(sorted)], e) <= 0 THEN Append(sorted, e)
  ELSE Append(InsertSorted(SubSeq(sorted, 1, Len(sorted) - 1), e), sorted[Len(sorted)])

RECURSIVE SortFrom(_, _, _)
SortFrom(evs, i, acc) ==
  IF i > Len(evs) THEN acc ELSE SortFrom(evs, i + 1, InsertSorted(acc, evs[i]))

SortEvents(evs) == SortFrom(evs, 1, << >>)

\* lines 158-165: one CSV row per event after the header; a row is modelled
\* by the created_at it renders.
RECURSIVE Rows(_, _)
Rows(evs, i) == IF i > Len(evs) THEN << >> ELSE << evs[i].created_at >> \o Rows(evs, i + 1)

CsvOf(evs) == << "content,timestamp" >> \o Rows(evs, 1)

\* Mutant of SuccessMessageFor: the two messages are swapped.
SuccessMessageSwapped(count) ==
  IF count = 0 THEN "Successfully fetched kind1 events"
  ELSE "No kind1 events found for this user"

\* lines 168-172: the message of a finished run; the count rendered into the
\* second message is left out.
SuccessMessageFor(count) ==
  IF count = 0 THEN "No kind1 events found for this user"
  ELSE "Successfully fetched kind1 events"

\* Mutant of FilterUntil: a truthiness test, which drops a cursor of 0.
FilterUntilTruthy(u) == IF u # undefined /\ u[1] # 0 THEN u ELSE undefined

\* lines 117-119: until goes into the filter whenever it is a number.
FilterUntil(u) == IF u # undefined THEN u ELSE undefined

(* ------------------------------- Init ---------------------------------- *)
InitWith(stores) ==
  /\ pc = "idle"
  /\ isLoading = FALSE
  /\ errorMessage = ""
  /\ successMessage = ""
  /\ csvOutput = << >>
  /\ pool = "none"
  /\ relays = {}
  /\ events = << >>
  /\ seenEventIds = {}
  /\ until = undefined
  /\ filterUntil = undefined
  /\ chunkEvents = << >>
  /\ resolved = FALSE
  /\ subOpen = FALSE
  /\ timerArmed = FALSE
  /\ eosesReceived = [r \in Relays |-> FALSE]
  /\ closesReceived = [r \in Relays |-> FALSE]
  /\ elapsed = 0
  /\ openSubs = 0
  /\ store = stores
  /\ sent = [r \in Relays |-> {}]
  /\ copyPending = 0
  /\ clearTimers = 0
  /\ fetchCount = 0
  /\ resolvedBy = "none"
  /\ streamed = << >>
  /\ poolCloses = 0
  /\ admitted = << >>
  /\ arrival = << >>

\* Unconstrained relays have no store to answer from.
Init == InitWith([r \in Relays |-> {}])

\* Honest relays: every relay holds some subset of the author's events.
InitHonest == \E stores \in [Relays -> SUBSET Event] : InitWith(stores)

\* One honest relay: the relays the user did not enter hold nothing.
InitSingle ==
  \E held \in SUBSET Event : InitWith([r \in Relays |-> IF r = 1 THEN held ELSE {}])

(* ------------------------ fetchAndConvertToCSV ------------------------- *)
\* Mutant of Catch: the handler forgets to lower isLoading.
CatchKeepsLoading(message) ==
  /\ isLoading' = isLoading
  /\ errorMessage' = message

\* lines 173-176: the catch block.
Catch(message) ==
  /\ isLoading' = FALSE
  /\ errorMessage' = message

\* Mutant of Run: the pool is created before the inputs are validated.
RunPoolFirst(decodeOk, nRelays) ==
  /\ successMessage' = ""
  /\ csvOutput' = << >>
  /\ pool' = "open"
  /\ poolCloses' = 0
  /\ IF decodeOk /\ nRelays > 0
     THEN /\ pc' = "loop"
          /\ isLoading' = TRUE
          /\ errorMessage' = ""
          /\ relays' = 1 .. nRelays
     ELSE /\ pc' = "failed"
          /\ Catch(IF decodeOk THEN "At least one relay URL is required"
                   ELSE "Failed to decode npub")
          /\ relays' = {}
  /\ events' = << >>
  /\ seenEventIds' = {}
  /\ until' = undefined
  /\ admitted' = << >>
  /\ arrival' = << >>
  /\ filterUntil' = undefined
  /\ chunkEvents' = << >>
  /\ streamed' = << >>
  /\ resolved' = FALSE
  /\ resolvedBy' = "none"
  /\ eosesReceived' = [r \in Relays |-> FALSE]
  /\ closesReceived' = [r \in Relays |-> FALSE]
  /\ elapsed' = 0
  /\ sent' = [r \in Relays |-> {}]
  /\ fetchCount' = 0
  /\ UNCHANGED << subOpen, timerArmed, openSubs, store, copyVars >>

\* lines 88-107, and 173-176 when npubToHex or the relay check throws: the
\* messages and the output are cleared, the inputs validated, and the pool and
\* the run's fresh locals created.  nRelays is the length of the parsed list.
Run(decodeOk, nRelays) ==
  /\ successMessage' = ""
  /\ csvOutput' = << >>
  /\ poolCloses' = 0
  /\ IF decodeOk /\ nRelays > 0
     THEN /\ pc' = "loop"
          /\ isLoading' = TRUE
          /\ errorMessage' = ""
          /\ pool' = "open"
          /\ relays' = 1 .. nRelays
     ELSE /\ pc' = "failed"
          /\ Catch(IF decodeOk THEN "At least one relay URL is required"
                   ELSE "Failed to decode npub")
          /\ pool' = "none"
          /\ relays' = {}
  /\ events' = << >>
  /\ seenEventIds' = {}
  /\ until' = undefined
  /\ admitted' = << >>
  /\ arrival' = << >>
  /\ filterUntil' = undefined
  /\ chunkEvents' = << >>
  /\ streamed' = << >>
  /\ resolved' = FALSE
  /\ resolvedBy' = "none"
  /\ eosesReceived' = [r \in Relays |-> FALSE]
  /\ closesReceived' = [r \in Relays |-> FALSE]
  /\ elapsed' = 0
  /\ sent' = [r \in Relays |-> {}]
  /\ fetchCount' = 0
  /\ UNCHANGED << subOpen, timerArmed, openSubs, store, copyVars >>

\* The first click on the Fetch button (lines 269-273).
Start(decodeOk, nRelays) ==
  /\ pc = "idle"
  /\ ~isLoading
  /\ Run(decodeOk, nRelays)

\* A later click on the Fetch button: the button is disabled while isLoading
\* (line 272), so the earlier run has ended.
Restart(decodeOk, nRelays) ==
  /\ pc \in {"done", "failed"}
  /\ ~isLoading
  /\ Run(decodeOk, nRelays)

(* ------------------------ fetchChunkFromRelays ------------------------- *)
\* line 74: setTimeout(..., timeoutMs).
SetTimer == timerArmed' = TRUE

\* lines 111-121 and 58-77: build the filter from until, subscribe, arm the
\* timer, await the promise.
OpenChunk ==
  /\ pc = "loop"
  /\ pc' = "awaiting"
  /\ filterUntil' = FilterUntil(until)
  /\ chunkEvents' = << >>
  /\ streamed' = << >>
  /\ resolved' = FALSE
  /\ resolvedBy' = "none"
  /\ subOpen' = TRUE
  /\ openSubs' = openSubs + 1
  /\ SetTimer
  /\ elapsed' = 0
  /\ eosesReceived' = [r \in Relays |-> FALSE]
  /\ closesReceived' = [r \in Relays |-> FALSE]
  /\ sent' = [r \in Relays |-> {}]
  /\ fetchCount' = IF fetchCount < MaxFetches THEN fetchCount + 1 ELSE fetchCount
  /\ UNCHANGED << uiVars, poolVars, copyVars, loopVars, store >>

\* lines 58-60 when pool.subscribeMany throws: the executor's exception
\* rejects the promise before the timer of line 74 is set, and the await of
\* line 121 rethrows it.
ChunkThrows ==
  /\ pc = "loop"
  /\ pc' = "throwing"
  /\ filterUntil' = FilterUntil(until)
  /\ chunkEvents' = << >>
  /\ streamed' = << >>
  /\ fetchCount' = IF fetchCount < MaxFetches THEN fetchCount + 1 ELSE fetchCount
  /\ UNCHANGED << uiVars, poolVars, copyVars, loopVars, store, resolved, resolvedBy,
                  subOpen, timerArmed, openSubs, eosesReceived, closesReceived,
                  elapsed, sent >>

\* Mutant of Cleanup: the timer is cleared, the subscription is left open.
CleanupTimerOnly ==
  /\ timerArmed' = FALSE
  /\ UNCHANGED << subOpen, openSubs >>

\* lines 79-82: cleanup() clears the timer and closes the subscription; both
\* are no-ops when already done.
Cleanup ==
  /\ timerArmed' = FALSE
  /\ subOpen' = FALSE
  /\ openSubs' = IF subOpen THEN openSubs - 1 ELSE openSubs

\* Mutant of Resolve: a later call settles the promise again.
ResolveAgain(by) ==
  /\ resolved' = TRUE
  /\ resolvedBy' = by
  /\ pc' = "resolved"

\* resolve(chunkEvents): the first call settles the promise and schedules the
\* continuation of the await of line 121; later calls do nothing.
Resolve(by) ==
  /\ resolved' = TRUE
  /\ resolvedBy' = IF resolved THEN resolvedBy ELSE by
  /\ pc' = IF resolved THEN pc ELSE "resolved"

\* Mutant of onevent: an event is kept only while the buffer is empty.
oneventKeepsFirst(event) ==
  chunkEvents' = IF chunkEvents = << >> THEN << event >> ELSE chunkEvents

\* lines 61-63.
onevent(event) == chunkEvents' = Append(chunkEvents, event)

\* Mutant of oneose: the callback cleans up and forgets to resolve.
oneoseNoResolve == Cleanup /\ UNCHANGED << pc, resolved, resolvedBy >>

\* lines 64-67.
oneose == Cleanup /\ Resolve("eose")

\* lines 68-71.
onclose == Cleanup /\ Resolve("close")

\* Mutant of ontimeout: the callback closes the subscription and forgets to
\* resolve.
ontimeoutNoResolve == Cleanup /\ UNCHANGED << pc, resolved, resolvedBy >>

\* lines 74-77: the timer's callback.
ontimeout == Cleanup /\ Resolve("timeout")

\* An unconstrained relay delivers some event on a session that is open.
OnEvent(event) ==
  /\ pc = "awaiting"
  /\ subOpen
  /\ \E r \in relays : ~closesReceived[r]
  /\ Len(chunkEvents) < MaxChunkLen
  /\ onevent(event)
  /\ streamed' = Append(streamed, event)
  /\ UNCHANGED << promiseVars, uiVars, poolVars, copyVars, loopVars, filterUntil,
                  eosesReceived, closesReceived, elapsed, store, sent, fetchCount >>

\* Relay r sends end-of-stored-events; the pool calls oneose when it was the
\* last relay to complete.
RelayEose(r) ==
  /\ pc = "awaiting"
  /\ subOpen
  /\ r \in relays
  /\ ~eosesReceived[r]
  /\ eosesReceived' = [eosesReceived EXCEPT ![r] = TRUE]
  /\ IF \A q \in relays : eosesReceived'[q]
     THEN oneose
     ELSE UNCHANGED promiseVars
  /\ UNCHANGED << uiVars, poolVars, copyVars, loopVars, filterUntil, chunkEvents,
                  streamed, closesReceived, elapsed, store, sent, fetchCount >>

\* The pool's handling of the closure of relay r's session: a closed relay
\* counts as completed.  When that completes the last relay the pool calls
\* oneose, and when every relay has closed it calls onclose; after either call
\* the other one finds the promise settled and the subscription closed.
SessionClosed(r) ==
  /\ closesReceived' = [closesReceived EXCEPT ![r] = TRUE]
  /\ eosesReceived' = [eosesReceived EXCEPT ![r] = TRUE]
  /\ IF \A q \in relays : closesReceived'[q]
     THEN onclose
     ELSE IF \A q \in relays : eosesReceived'[q]
          THEN oneose
          ELSE UNCHANGED promiseVars

\* Relay r's session closes while the chunk is pending.
RelayClose(r) ==
  /\ pc = "awaiting"
  /\ subOpen
  /\ r \in relays
  /\ ~closesReceived[r]
  /\ SessionClosed(r)
  /\ UNCHANGED << uiVars, poolVars, copyVars, loopVars, filterUntil, chunkEvents,
                  streamed, elapsed, store, sent, fetchCount >>

\* subscription.close() of line 81 closes the session of relay r after the
\* promise has resolved and before the await of line 121 continues: the pool
\* calls the callbacks of the finished chunk fetch once more.
LateClose(r) ==
  /\ pc = "resolved"
  /\ ~subOpen
  /\ r \in relays
  /\ ~closesReceived[r]
  /\ SessionClosed(r)
  /\ UNCHANGED << uiVars, poolVars, copyVars, loopVars, filterUntil, chunkEvents,
                  streamed, elapsed, store, sent, fetchCount >>

\* A clock tick passes while the chunk is pending.  A timer that is due fires
\* before the next tick; without a pending timer nothing holds the clock.
Tick ==
  /\ pc = "awaiting"
  /\ elapsed <= CHUNK_TIMEOUT_MS
  /\ ~(timerArmed /\ elapsed >= CHUNK_TIMEOUT_MS)
  /\ elapsed' = elapsed + 1
  /\ UNCHANGED << promiseVars, uiVars, poolVars, copyVars, loopVars, filterUntil,
                  chunkEvents, streamed, eosesReceived, closesReceived, store,
                  sent, fetchCount >>

\* lines 74-77: the timer fires timeoutMs after it was set.
Timeout ==
  /\ pc = "awaiting"
  /\ timerArmed
  /\ elapsed >= CHUNK_TIMEOUT_MS
  /\ ontimeout
  /\ UNCHANGED << uiVars, poolVars, copyVars, loopVars, filterUntil, chunkEvents,
                  streamed, eosesReceived, closesReceived, elapsed, store, sent,
                  fetchCount >>

(* ----------------------------- honest relays --------------------------- *)
\* The stored events the filter of lines 111-119 selects on relay r.
Matching(r) ==
  { e \in store[r] : filterUntil = undefined \/ e.created_at <= filterUntil[1] }

\* The size of relay r's answer: the filter's limit caps it.
AnswerSize(r) == Min2(CHUNK_EVENT_LIMIT, Cardinality(Matching(r)))

\* Relay r sends the newest matching event it has not sent yet.
HonestSend(r) ==
  /\ pc = "awaiting"
  /\ subOpen
  /\ r \in relays
  /\ ~eosesReceived[r]
  /\ Cardinality(sent[r]) < AnswerSize(r)
  /\ \E e \in Matching(r) \ sent[r] :
       /\ \A f \in Matching(r) \ sent[r] : f.created_at <= e.created_at
       /\ onevent(e)
       /\ streamed' = Append(streamed, e)
       /\ sent' = [sent EXCEPT ![r] = @ \cup {e}]
  /\ UNCHANGED << promiseVars, uiVars, poolVars, copyVars, loopVars, filterUntil,
                  eosesReceived, closesReceived, elapsed, store, fetchCount >>

\* Relay r has sent its whole answer and signals end-of-stored-events.
HonestEose(r) ==
  /\ Cardinality(sent[r]) = AnswerSize(r)
  /\ RelayEose(r)

(* ------------------------- the pagination loop ------------------------- *)
\* Mutant of UnderFull: the comparison is off by one.
UnderFullOffByOne(chunk) == Len(chunk) < CHUNK_EVENT_LIMIT - 1

\* line 140: the page was not full.
UnderFull(chunk) == Len(chunk) < CHUNK_EVENT_LIMIT

\* Mutant of NextUntil: the boundary timestamp itself is asked for again.
NextUntilSame(oldestTimestamp) == oldestTimestamp

\* line 144: the next cursor.
NextUntil(oldestTimestamp) == oldestTimestamp - 1

\* lines 123-148: the loop body after the await.
ProcessChunk ==
  /\ pc = "resolved"
  /\ IF Len(chunkEvents) = 0
     THEN /\ pc' = "finally"
          /\ UNCHANGED loopVars
     ELSE LET acc == Accumulate(chunkEvents, 1, events, seenEventIds)
              fresh == SubSeq(acc.events, Len(events) + 1, Len(acc.events))
          IN /\ events' = acc.events
             /\ seenEventIds' = acc.seen
             /\ arrival' = arrival \o fresh
             /\ admitted' = admitted \o [i \in 1 .. Len(fresh) |-> filterUntil]
             /\ IF UnderFull(chunkEvents)
                THEN /\ pc' = "finally"
                     /\ until' = until
                ELSE /\ until' = << NextUntil(OldestTimestamp(chunkEvents)) >>
                     /\ pc' = IF until'[1] < 0 THEN "finally" ELSE "loop"
  \* the filter, the promise and the pool's bookkeeping of the finished call
  \* are dropped
  /\ filterUntil' = undefined
  /\ resolved' = FALSE
  /\ resolvedBy' = "none"
  /\ eosesReceived' = [r \in Relays |-> FALSE]
  /\ closesReceived' = [r \in Relays |-> FALSE]
  /\ elapsed' = 0
  /\ sent' = [r \in Relays |-> {}]
  /\ UNCHANGED << uiVars, poolVars, copyVars, chunkEvents, streamed, subOpen,
                  timerArmed, openSubs, store, fetchCount >>

\* line 151: pool.close(relays).
ClosePool ==
  /\ pool' = "closed"
  /\ poolCloses' = poolCloses + 1
  /\ UNCHANGED relays

\* lines 150-172: finally { pool.close(relays) }, sort, CSV, messages.
Finish ==
  /\ pc = "finally"
  /\ pc' = "done"
  /\ ClosePool
  /\ events' = SortEvents(events)
  /\ csvOutput' = CsvOf(events')
  /\ isLoading' = FALSE
  /\ successMessage' = SuccessMessageFor(Len(events))
  /\ UNCHANGED << errorMessage, seenEventIds, until, admitted, arrival, filterUntil,
                  chunkEvents, streamed, resolved, resolvedBy, subOpen, timerArmed,
                  openSubs, eosesReceived, closesReceived, elapsed, store, sent,
                  fetchCount, copyVars >>

\* Mutant of FinishThrow: the pool is closed after the loop instead of in a
\* finally block, so an exception skips it.
FinishThrowNoFinally ==
  /\ pc = "throwing"
  /\ pc' = "failed"
  /\ Catch("subscribe failed")
  /\ UNCHANGED << successMessage, csvOutput, poolVars, copyVars, loopVars,
                  filterUntil, chunkEvents, streamed, resolved, resolvedBy, subOpen,
                  timerArmed, openSubs, eosesReceived, closesReceived, elapsed,
                  store, sent, fetchCount >>

\* lines 150-152 and 173-176 when the await of line 121 threw: the finally
\* block closes the pool, the catch block reports the exception's message.
FinishThrow ==
  /\ pc = "throwing"
  /\ pc' = "failed"
  /\ ClosePool
  /\ Catch("subscribe failed")
  /\ UNCHANGED << successMessage, csvOutput, copyVars, loopVars, filterUntil,
                  chunkEvents, streamed, resolved, resolvedBy, subOpen, timerArmed,
                  openSubs, eosesReceived, closesReceived, elapsed, store, sent,
                  fetchCount >>

(* --------------------------- copyToClipboard --------------------------- *)
\* lines 181-182: a click on the Copy button, which is rendered only while
\* csvOutput is non-empty; the clipboard write is pending.  The calls whose
\* write or delayed clear is outstanding are bounded.
CopyStart ==
  /\ csvOutput # << >>
  /\ copyPending + clearTimers < MaxPendingCopies
  /\ copyPending' = copyPending + 1
  /\ UNCHANGED << pc, uiVars, poolVars, loopVars, filterUntil, chunkEvents,
                  streamed, resolved, resolvedBy, subOpen, timerArmed, openSubs,
                  eosesReceived, closesReceived, elapsed, store, sent, fetchCount,
                  clearTimers >>

\* lines 183-189: the write succeeded; the message is set and its delayed
\* clear is scheduled.
CopyResolve ==
  /\ copyPending > 0
  /\ copyPending' = copyPending - 1
  /\ successMessage' = "Copied to clipboard!"
  /\ clearTimers' = clearTimers + 1
  /\ UNCHANGED << pc, isLoading, errorMessage, csvOutput, poolVars, loopVars,
                  filterUntil, chunkEvents, streamed, resolved, resolvedBy, subOpen,
                  timerArmed, openSubs, eosesReceived, closesReceived, elapsed,
                  store, sent, fetchCount >>

\* lines 190-192: the write failed.
CopyReject ==
  /\ copyPending > 0
  /\ copyPending' = copyPending - 1
  /\ errorMessage' = "Failed to copy to clipboard"
  /\ UNCHANGED << pc, isLoading, successMessage, csvOutput, poolVars, loopVars,
                  filterUntil, chunkEvents, streamed, resolved, resolvedBy, subOpen,
                  timerArmed, openSubs, eosesReceived, closesReceived, elapsed,
                  store, sent, fetchCount, clearTimers >>

\* lines 185-189: the delayed clear fires 2000 ms after a successful copy.
ClearFires ==
  /\ clearTimers > 0
  /\ clearTimers' = clearTimers - 1
  /\ successMessage' = IF successMessage = "Copied to clipboard!" THEN ""
                       ELSE successMessage
  /\ UNCHANGED << pc, isLoading, errorMessage, csvOutput, poolVars, loopVars,
                  filterUntil, chunkEvents, streamed, resolved, resolvedBy, subOpen,
                  timerArmed, openSubs, eosesReceived, closesReceived, elapsed,
                  store, sent, fetchCount, copyPending >>

(* --------------------------- specifications ---------------------------- *)
\* The lists the loop can leave in events: sequences of events with pairwise
\* distinct ids.
DeduplicatedLists ==
  { evs \in UNION { [1 .. n -> Event] : n \in 0 .. MaxSortLen } :
      \A i, j \in 1 .. Len(evs) : i # j => evs[i].id # evs[j].id }

\* The state at the finally block of line 150 after a loop that collected evs.
InitSort ==
  \E evs \in DeduplicatedLists :
    /\ pc = "finally"
    /\ isLoading = TRUE
    /\ errorMessage = ""
    /\ successMessage = ""
    /\ csvOutput = << >>
    /\ pool = "open"
    /\ relays = Relays
    /\ events = evs
    /\ seenEventIds = { evs[i].id : i \in 1 .. Len(evs) }
    /\ until = undefined
    /\ filterUntil = undefined
    /\ chunkEvents = << >>
    /\ resolved = FALSE
    /\ subOpen = FALSE
    /\ timerArmed = FALSE
    /\ eosesReceived = [r \in Relays |-> FALSE]
    /\ closesReceived = [r \in Relays |-> FALSE]
    /\ elapsed = 0
    /\ openSubs = 0
    /\ store = [r \in Relays |-> {}]
    /\ sent = [r \in Relays |-> {}]
    /\ copyPending = 0
    /\ clearTimers = 0
    /\ fetchCount = 1
    /\ resolvedBy = "none"
    /\ streamed = << >>
    /\ poolCloses = 0
    /\ admitted = [i \in 1 .. Len(evs) |-> undefined]
    /\ arrival = evs

\* The result assembler alone (lines 150-172), applied to every deduplicated
\* list up to MaxSortLen events.
SpecSort == InitSort /\ [][Finish]_vars

\* One run against relays that never make subscribeMany throw and whose
\* sessions stay as they are once the subscription is closed.  The user
\* entered NumRelays relay URLs or none.
Next ==
  \/ \E d \in BOOLEAN, n \in {0, NumRelays} : Start(d, n)
  \/ OpenChunk
  \/ \E e \in AdversaryEvent : OnEvent(e)
  \/ \E r \in Relays : RelayEose(r)
  \/ \E r \in Relays : RelayClose(r)
  \/ Tick
  \/ Timeout
  \/ ProcessChunk
  \/ Finish

Spec == Init /\ [][Next]_vars

\* The event loop runs every step of the program that is ready, time passes
\* and a due timer fires; nothing obliges a relay to send anything.
FairSpec ==
  /\ Spec
  /\ WF_vars(OpenChunk)
  /\ WF_vars(Tick)
  /\ WF_vars(Timeout)
  /\ WF_vars(ProcessChunk)
  /\ WF_vars(Finish)

NextHonest ==
  \/ \E d \in BOOLEAN, n \in {0, NumRelays} : Start(d, n)
  \/ OpenChunk
  \/ \E r \in Relays : HonestSend(r)
  \/ \E r \in Relays : HonestEose(r)
  \/ ProcessChunk
  \/ Finish

SpecHonest == InitHonest /\ [][NextHonest]_vars

\* The user entered one relay URL, and that relay is honest.
NextSingle ==
  \/ \E d \in BOOLEAN : Start(d, 1)
  \/ OpenChunk
  \/ HonestSend(1)
  \/ HonestEose(1)
  \/ ProcessChunk
  \/ Finish

SpecSingle == InitSingle /\ [][NextSingle]_vars

\* Run after run, with a pool whose subscribeMany may throw and whose
\* sessions are closed by subscription.close().
NextRuns ==
  \/ Next
  \/ \E d \in BOOLEAN, n \in {0, NumRelays} : Restart(d, n)
  \/ ChunkThrows
  \/ FinishThrow
  \/ \E r \in Relays : LateClose(r)

SpecRuns == Init /\ [][NextRuns]_vars

\* The runs interleaved with clicks on the Copy button.
NextUi ==
  \/ NextRuns
  \/ CopyStart
  \/ CopyResolve
  \/ CopyReject
  \/ ClearFires

SpecUi == Init /\ [][NextUi]_vars

(* ------------------------------ properties ----------------------------- *)
NoDuplicateIds(evs) ==
  \A i, j \in 1 .. Len(evs) : i # j => evs[i].id # evs[j].id

\* C1: whatever chunks the relays return, the accumulated event list never
\* holds two events with the same id, in any reachable state and in the
\* final output.
C1_NoDuplicateIds == NoDuplicateIds(events)

\* C1's case: the second chunk has been processed; it held one id twice and
\* an id that the first chunk had already admitted.
C1_Witness ==
  /\ pc \in {"loop", "finally"}
  /\ fetchCount = 2
  /\ Len(events) >= 2
  /\ \E i, j \in 1 .. Len(chunkEvents) : i < j /\ chunkEvents[i].id = chunkEvents[j].id
  /\ \E k \in 1 .. Len(arrival), i \in 1 .. Len(chunkEvents) :
       admitted[k] = undefined /\ chunkEvents[i].id = arrival[k].id

\* The author's events stored on the queried relays have pairwise distinct
\* timestamps.
DistinctTimestamps ==
  \A r, q \in relays : \A e \in store[r], f \in store[q] :
    e.id # f.id => e.created_at # f.created_at

\* C2: with honest relays and pairwise distinct timestamps, the final result
\* holds every event stored on at least one queried relay.
C2_CompleteAcrossRelays ==
  (pc = "done" /\ DistinctTimestamps) =>
    \A r \in relays : \A e \in store[r] : \E i \in 1 .. Len(events) : events[i] = e

\* C3: once the pagination loop has started it terminates, whatever the
\* relays return.
C3_LoopTerminates == (pc = "loop") ~> (pc = "done")

\* Every event of the resolved chunk respects the until of its query.
ChunkWithinUntil ==
  until # undefined =>
    \A i \in 1 .. Len(chunkEvents) : chunkEvents[i].created_at <= until[1]

\* C4: when the chunk's events respect the query's until, a chunk that is
\* followed by another fetch leaves a cursor that is a natural number and
\* strictly smaller than the cursor of its own query (when it had one).
C4_CursorStrictlyDecreases ==
  [][ (pc = "resolved" /\ pc' = "loop" /\ ChunkWithinUntil) =>
        /\ until' # undefined
        /\ until'[1] >= 0
        /\ until # undefined => until'[1] < until[1] ]_vars

\* C4's case: the second query carried an until, its chunk respected it and
\* was full, and a third fetch follows with a smaller cursor.
C4_Witness ==
  /\ pc = "loop"
  /\ fetchCount = 2
  /\ until # undefined
  /\ Len(admitted) > 0
  /\ admitted[Len(admitted)] # undefined
  /\ \A i \in 1 .. Len(chunkEvents) :
       chunkEvents[i].created_at <= admitted[Len(admitted)][1]
  /\ until[1] < admitted[Len(admitted)][1]

\* C5: every event of the final output has created_at <= the until of the
\* query whose chunk admitted it, when that query carried one.
C5_AdmittedWithinUntil ==
  pc = "done" =>
    \A k \in 1 .. Len(arrival) :
      admitted[k] # undefined => arrival[k].created_at <= admitted[k][1]

PositionIn(seq, e) == CHOOSE i \in 1 .. Len(seq) : seq[i] = e

\* C6: the sequence handed to the CSV conversion is a permutation of the
\* deduplicated list, non-decreasing by created_at, and events with equal
\* created_at keep their order of first receipt.
C6_SortedStablePermutation ==
  pc = "done" =>
    /\ Len(events) = Len(arrival)
    /\ \A k \in 1 .. Len(arrival) : \E i \in 1 .. Len(events) : events[i] = arrival[k]
    /\ \A i, j \in 1 .. Len(events) :
         i < j => /\ events[i].created_at <= events[j].created_at
                  /\ events[i].created_at = events[j].created_at =>
                       PositionIn(arrival, events[i]) < PositionIn(arrival, events[j])

\* C6's case: three or more events, received out of order and two of them
\* with the same created_at, have been sorted.
C6_Witness ==
  /\ pc = "done"
  /\ Len(events) >= 3
  /\ events # arrival
  /\ \E i, j \in 1 .. Len(events) : i < j /\ events[i].created_at = events[j].created_at

\* C7: a chunk smaller than the page size (an empty one included) ends the
\* loop, and no chunk fetch starts once the loop has ended.
C7_NoFetchAfterUnderFull ==
  [][ /\ (pc = "resolved" /\ Len(chunkEvents) < CHUNK_EVENT_LIMIT) => pc' = "finally"
      /\ pc \in {"finally", "done"} =>
           /\ pc' \in {"finally", "done"}
           /\ fetchCount' = fetchCount ]_vars

\* C7's case: the first chunk held one event, and the run ended after that
\* single fetch.
C7_Witness ==
  /\ pc = "done"
  /\ fetchCount = 1
  /\ Len(chunkEvents) = 1
  /\ Len(chunkEvents) < CHUNK_EVENT_LIMIT

\* C8: a pending chunk fetch has its timer running and is never pending
\* later than timeoutMs after it began; a resolved one resolved no later than
\* that, even if no relay delivered, completed or closed.
C8_ResolvesWithinTimeout ==
  /\ pc = "awaiting" => (timerArmed /\ elapsed <= CHUNK_TIMEOUT_MS)
  /\ resolved => elapsed <= CHUNK_TIMEOUT_MS

\* C8's case: no relay delivered, completed or closed, and the timer
\* resolved the chunk.
C8_Witness ==
  /\ resolved
  /\ resolvedBy = "timeout"
  /\ elapsed = CHUNK_TIMEOUT_MS
  /\ chunkEvents = << >>
  /\ relays = Relays
  /\ \A r \in relays : ~eosesReceived[r] /\ ~closesReceived[r]

AllCompleted == \A r \in relays : eosesReceived[r]

\* C9: while some relay has neither completed nor closed only the timer
\* resolves the chunk, and the chunk is never left pending once every relay
\* has completed or closed.
C9_ResolvesOnCompletionOrTimeout ==
  /\ (resolved /\ ~AllCompleted) => (resolvedBy = "timeout" /\ elapsed >= CHUNK_TIMEOUT_MS)
  /\ (resolved /\ AllCompleted) => resolvedBy \in {"eose", "close"}
  /\ pc = "awaiting" => ~AllCompleted

\* C9's case: one relay closed, another sent end-of-stored-events, and the
\* chunk resolved before the timer was due.
C9_Witness ==
  /\ resolved
  /\ AllCompleted
  /\ elapsed < CHUNK_TIMEOUT_MS
  /\ \E r \in relays : closesReceived[r]
  /\ \E r \in relays : ~closesReceived[r]

\* C10: at most one chunk subscription is open; a resolved chunk's
\* subscription is closed, and a subscription is open only while its own
\* chunk is pending.
C10_OneSubscriptionAtATime ==
  /\ openSubs <= 1
  /\ resolved => (~subOpen /\ openSubs = 0)
  /\ subOpen => (pc = "awaiting" /\ ~resolved /\ openSubs = 1)
  /\ pc = "loop" => openSubs = 0

\* C10's case: the second chunk's subscription is open, the first one has
\* resolved by the timer and was closed.
C10_Witness ==
  /\ pc = "awaiting"
  /\ fetchCount = 2
  /\ subOpen
  /\ openSubs = 1
\* The run is between the creation of its pool and its finally block.
InRun == pc \in {"loop", "awaiting", "resolved", "finally", "throwing"}

\* C11: a run that created a relay pool closes it exactly once before it
\* ends, whether the loop ended on an empty chunk, an under-full chunk, a
\* negative cursor or an exception of a chunk fetch; until then the pool is
\* open and has not been closed.
C11_PoolClosedExactlyOnce ==
  /\ poolCloses <= 1
  /\ InRun => (pool = "open" /\ poolCloses = 0)
  /\ pc = "done" => (pool = "closed" /\ poolCloses = 1)
  /\ (pc = "failed" /\ fetchCount >= 1) => (pool = "closed" /\ poolCloses = 1)
  /\ (pc = "failed" /\ fetchCount = 0) => (pool = "none" /\ poolCloses = 0)

\* C11's case: the first chunk was full, the second chunk fetch threw, and
\* the run ended with its pool closed once.
C11_Witness ==
  /\ pc = "failed"
  /\ fetchCount = 2
  /\ Len(events) >= 1
  /\ pool = "closed"
  /\ poolCloses = 1
\* The messages of the two validation errors (lines 40 and 100).
ValidationErrors == {"Failed to decode npub", "At least one relay URL is required"}

\* C12: a run whose key does not decode or whose parsed relay list is empty
\* ends in the error state (errorMessage set, csvOutput empty, isLoading
\* false) and has created no pool and started no chunk fetch; no run goes on
\* with an empty relay list.
C12_ValidationErrorBeforePool ==
  /\ (pc = "failed" /\ errorMessage \in ValidationErrors) =>
       /\ csvOutput = << >>
       /\ successMessage = ""
       /\ ~isLoading
       /\ pool = "none"
       /\ poolCloses = 0
       /\ fetchCount = 0
       /\ ~subOpen
       /\ openSubs = 0
  /\ (relays = {} /\ pc # "idle") => (pc = "failed" /\ errorMessage \in ValidationErrors)

\* C12's case: the key did not decode and the run has ended.
C12_Witness ==
  /\ pc = "failed"
  /\ errorMessage = "Failed to decode npub"
  /\ relays = {}
  /\ pool = "none"
C14_NoEventsHeaderOnly ==
  /\ (pc \in {"finally", "done"} /\ arrival = << >>) =>
       /\ fetchCount = 1
       /\ streamed = << >>
       /\ events = << >>
       /\ errorMessage = ""
  /\ (pc = "done" /\ arrival = << >>) =>
       /\ successMessage = "No kind1 events found for this user"
       /\ csvOutput = << "content,timestamp" >>
       /\ ~isLoading

\* C14's case: every relay completed without an event and the run has ended.
C14_Witness ==
  /\ pc = "done"
  /\ arrival = << >>
  /\ streamed = << >>
  /\ fetchCount = 1
  /\ csvOutput = << "content,timestamp" >>
\* The least created_at among the events of a non-empty chunk.
MinCreatedAt(chunk) ==
  CHOOSE m \in { chunk[i].created_at : i \in 1 .. Len(chunk) } :
    \A i \in 1 .. Len(chunk) : m <= chunk[i].created_at

\* The single relay holds events at pairwise distinct timestamps >= 1.
SingleDistinctFromOne ==
  /\ \A e \in store[1] : e.created_at >= 1
  /\ \A e, f \in store[1] : e # f => e.created_at # f.created_at

\* C15: one honest relay that answers before the timeout and holds N events
\* at pairwise distinct timestamps >= 1: the run makes N div L + 1 chunk
\* fetches, the first query carries no until and every later one carries the
\* least created_at of the previous chunk minus one, and the output lists
\* the N events in ascending created_at order.
C15_SingleRelayPagination ==
  SingleDistinctFromOne =>
    /\ (pc = "loop" /\ fetchCount >= 1) => until = << MinCreatedAt(chunkEvents) - 1 >>
    /\ pc = "awaiting" =>
         /\ filterUntil = until
         /\ fetchCount = 1 <=> filterUntil = undefined
    /\ pc = "done" =>
         /\ fetchCount = (Cardinality(store[1]) \div CHUNK_EVENT_LIMIT) + 1
         /\ Len(events) = Cardinality(store[1])
         /\ \A e \in store[1] : \E i \in 1 .. Len(events) : events[i] = e
         /\ \A i, j \in 1 .. Len(events) :
              i < j => events[i].created_at < events[j].created_at
         /\ \A i \in 1 .. Len(events) : csvOutput[i + 1] = events[i].created_at

\* C15's case: the relay holds two full pages; the run made three fetches,
\* the last one empty.
C15_Witness ==
  /\ SingleDistinctFromOne
  /\ pc = "done"
  /\ Cardinality(store[1]) = 2 * CHUNK_EVENT_LIMIT
  /\ fetchCount = 3
  /\ Len(events) = 2 * CHUNK_EVENT_LIMIT
  /\ chunkEvents = << >>
\* No created_at is shared by more than a page of the single relay's events.
NoTimestampBeyondPage ==
  \A t \in 0 .. MaxTs :
    Cardinality({ e \in store[1] : e.created_at = t }) <= CHUNK_EVENT_LIMIT

\* C16: one honest relay that answers before the timeout: if no timestamp
\* is shared by more than L of its events, the final result holds every
\* stored event.
C16_CompleteUnlessTieBeyondPage ==
  (pc = "done" /\ NoTimestampBeyondPage) =>
    \A e \in store[1] : \E i \in 1 .. Len(events) : events[i] = e
\* C17: after a full chunk the next cursor is the least created_at of the
\* whole chunk (already-seen events included) minus one; the loop ends
\* without another fetch exactly when that cursor is negative; every query
\* carries the cursor as its until, a cursor of 0 included, and only the
\* first query of a run carries none.
C17_CursorAfterFullChunk ==
  /\ [][ (pc = "resolved" /\ Len(chunkEvents) >= CHUNK_EVENT_LIMIT) =>
           /\ until' = << MinCreatedAt(chunkEvents) - 1 >>
           /\ pc' = "finally" <=> until'[1] < 0
           /\ pc' = "loop" <=> until'[1] >= 0
           /\ fetchCount' = fetchCount ]_vars
  /\ [](pc = "awaiting" =>
          /\ filterUntil = until
          /\ filterUntil = undefined <=> fetchCount = 1)

\* C17's case: the second chunk was full and held only events the first
\* chunk had admitted, the least of them at created_at 1; the third query is
\* in flight with until 0.
C17_Witness ==
  /\ pc = "awaiting"
  /\ fetchCount = 3
  /\ filterUntil = << 0 >>
  /\ Len(events) >= 1
  /\ \A k \in 1 .. Len(admitted) : admitted[k] = undefined
  /\ \A k \in 1 .. Len(events) : events[k].created_at >= 1
\* C18: a chunk fetch delivers its result once: a resolved chunk has its
\* timer cancelled and its subscription closed, no timer is pending outside
\* a pending chunk fetch, the continuation of the await is scheduled only by
\* a pending fetch, and the callbacks the pool calls for a chunk that has
\* resolved change neither the delivered chunk nor the signal that resolved
\* it nor the pagination state.
C18_ResultDeliveredOnce ==
  /\ [](resolved => (~timerArmed /\ ~subOpen))
  /\ [](pc # "awaiting" => ~timerArmed)
  /\ [][ pc' = "resolved" => pc \in {"awaiting", "resolved"} ]_vars
  /\ [][ (pc = "resolved" /\ pc' = "resolved") =>
           UNCHANGED << chunkEvents, streamed, resolved, resolvedBy, loopVars,
                        timerArmed, subOpen, openSubs, fetchCount, uiVars >> ]_vars

\* C18's case: the timer resolved a chunk holding an event; closing the
\* subscription then closed every session, so the pool called oneose and
\* onclose for the resolved chunk.
C18_Witness ==
  /\ pc = "resolved"
  /\ resolvedBy = "timeout"
  /\ Len(chunkEvents) >= 1
  /\ relays = Relays
  /\ \A r \in relays : closesReceived[r]
  /\ ~timerArmed
\* C19: isLoading is true in every state of a run between its start and its
\* end and false in every other state: before the first run and after a run
\* has ended with a result, with a validation error or with an exception of
\* the pagination loop, across repeated runs.
C19_LoadingExactlyDuringRun ==
  /\ InRun => isLoading
  /\ pc \in {"idle", "done", "failed"} => ~isLoading

\* C19's case: a chunk fetch threw after a full first chunk, and the run
\* has ended with isLoading false.
C19_Witness ==
  /\ pc = "failed"
  /\ fetchCount = 2
  /\ errorMessage = "subscribe failed"
  /\ ~isLoading
\* C20: under every interleaving of runs, clipboard copies (succeeding or
\* failing) and the delayed clear of the copy message, errorMessage and
\* successMessage are never both non-empty.
C20_MessagesExclusive == ~(errorMessage # "" /\ successMessage # "")
====
